---- MODULE Spec2Model ----
(***************************************************************************)
(* A model of src/app.py: a FastAPI service that acquires a Redis client   *)
(* and a PostgreSQL connection at import time with a bounded retry loop    *)
(* (init_redis, init_postgres), keeps both in module globals (r, pg_conn)  *)
(* and serves cache_get, cache_set, db_test, health_check and root.        *)
(*                                                                         *)
(* External collaborators are modelled by what the handlers can observe:   *)
(*   - the Redis store is a map from keys to stored byte strings, written  *)
(*     only through this process;                                          *)
(*   - a psycopg2 connection object is "open", "aborted" (its transaction  *)
(*     failed and was never rolled back: the code never commits or rolls   *)
(*     back), or "closed" (the library marked it broken);                  *)
(*   - every call into a client library draws its outcome (success or the  *)
(*     class of the exception raised) nondeterministically.                *)
(***************************************************************************)
EXTENDS Integers, Sequences, FiniteSets, TLC

\* ---------------------------------------------------------------- bounds
NumKeys == 2
NumValues == 2
NumThreads == 2

Keys == 1..NumKeys
Values == 1..NumValues

\* Worker threads of the server's thread pool: handlers declared with "def"
\* run there, several at a time.
Threads == 1..NumThreads

\* Marks a key whose latest write came from a cache_set that raised.
Unacked == NumValues + 1

\* ------------------------------------------------------ program constants
max_retries == 10
retry_delay == 2

\* Python's None, and the client object init_redis returns (redis.Redis(...),
\* line 32). Handles are numbers so that a handle variable compares with both.
None == 0
RedisClient == 1

\* psycopg2 connection objects alive at the same time are told apart by a
\* slot number; at most two are ever referenced (conn and cursor.connection).
\* A freed slot is "free".
ConnIds == 1..2

\* Exception classes, by what the except clauses of the source tell apart.
\*   redis:    ConnectionError and TimeoutError are RedisError subclasses,
\*             both caught by "except (ConnectionError, RedisError)".
\*   psycopg2: only OperationalError is caught by init_postgres and db_test;
\*             InterfaceError ("connection already closed") and the other
\*             DatabaseError subclasses (InFailedSqlTransaction, ...) are not.
\*   "Exception" stands for any class outside the client library's hierarchy.
RedisCaught == {"ConnectionError", "TimeoutError"}
PgCaught == {"OperationalError"}

VARIABLES
    pc,          \* where the process is: a line of the module body, or serving
    attempt,     \* loop variable of the running init_* call (0-based)
    tries,       \* connect-and-verify attempts started by the running call
    caught,      \* attempts of the running call that ended in the except clause
    ret,         \* value the finished init_* call returns (before assignment)
    r,           \* module global r (line 79)
    pg_conn,     \* module global pg_conn (line 80)
    conn,        \* init_postgres local conn
    cursor,      \* init_postgres local cursor: the connection it belongs to
    conn_status, \* library state of each connection object
    store,       \* contents of the Redis store: present keys -> stored bytes
    latest,      \* per key, the latest write the store took: None (no write
                 \* yet), its value (cache_set returned 200 for it) or Unacked
                 \* (cache_set returned 503 for it)
    resp,        \* the response of the latest request
    trace,       \* what the running init_* call did so far, in order: its
                 \* attempts, log lines and sleeps
    inflight     \* per worker thread: the handler that is inside its
                 \* PostgreSQL query (and, for health_check, what its ping
                 \* gave), or Idle

vars == <<pc, attempt, tries, caught, ret, r, pg_conn, conn, cursor,
          conn_status, store, latest, resp, trace, inflight>>

startup_vars == <<attempt, tries, caught, ret, conn, cursor, trace>>
cache_vars == <<store, latest>>

NoResp == [op |-> "none", code |-> 0, calls |-> 0]

\* A worker thread that is not inside a query on pg_conn.
Idle == [op |-> "idle", redis_exc |-> "none"]

\* The process at import, before line 79 runs. The store holds none of the
\* keys the model tracks: what a response is compared with is the history of
\* this process's own writes.
Init ==
    /\ pc = "init_redis"
    /\ attempt = 0
    /\ tries = 0
    /\ caught = 0
    /\ ret = None
    /\ r = None
    /\ pg_conn = None
    /\ conn = None
    /\ cursor = None
    /\ conn_status = [c \in ConnIds |-> "free"]
    /\ store = << >>
    /\ latest = [k \in Keys |-> None]
    /\ resp = NoResp
    /\ trace = << >>
    /\ inflight = [t \in Threads |-> Idle]

\* ------------------------------------------------------------ retry loop

\* "if attempt < max_retries - 1" (lines 43, 71), negated: the else branch.
IsLastAttemptEarly(a) == ~(a < max_retries - 2)

IsLastAttempt(a) == ~(a < max_retries - 1)

\* The attempt number a warning carries, with the 0-based loop variable.
WarningNumberZeroBased(a) == a

\* f"... (attempt {attempt + 1}/{max_retries})", lines 44 and 72.
WarningNumber(a) == a + 1

\* The entries of trace.
AttemptEvent(a) == [ev |-> "attempt", n |-> a + 1]
WarningEvent(a) == [ev |-> "warning", n |-> WarningNumber(a)]
ErrorEvent == [ev |-> "error", n |-> 0]
InfoEvent == [ev |-> "info", n |-> 0]
SleepEvent == [ev |-> "sleep", n |-> retry_delay]

\* A retry loop with no budget ("while True"): every caught failure sleeps.
ExceptBranchForever(sleep_pc, return_pc, tr) ==
    /\ caught' = caught + 1
    /\ ret' = ret
    /\ pc' = sleep_pc
    /\ trace' = Append(tr, WarningEvent(attempt))

\* The except clause of either init_* (lines 42-48, 70-76): warn and go to
\* sleep, or log the error and return None. tr is the trace up to the
\* exception.
ExceptBranch(sleep_pc, return_pc, tr) ==
    /\ caught' = caught + 1
    /\ IF IsLastAttempt(attempt)
          THEN /\ ret' = None
               /\ pc' = return_pc
               /\ trace' = Append(tr, ErrorEvent)
          ELSE /\ ret' = ret
               /\ pc' = sleep_pc
               /\ trace' = Append(tr, WarningEvent(attempt))

\* ------------------------------------------------------------ init_redis

\* One pass of the loop body, lines 31-48: construct the client, ping.
RedisAttempt ==
    /\ pc = "init_redis"
    /\ tries' = tries + 1
    /\ \E outcome \in {"ok"} \cup RedisCaught \cup {"Exception"} :
          CASE outcome = "ok" ->
                  /\ ret' = RedisClient
                  /\ pc' = "assign_r"
                  /\ caught' = caught
                  /\ trace' = trace \o <<AttemptEvent(attempt), InfoEvent>>
            [] outcome \in RedisCaught ->
                  ExceptBranch("redis_sleep", "assign_r",
                               Append(trace, AttemptEvent(attempt)))
            [] OTHER ->
                  \* not caught: the exception leaves init_redis and the import
                  /\ pc' = "crashed"
                  /\ trace' = Append(trace, AttemptEvent(attempt))
                  /\ UNCHANGED <<ret, caught>>
    /\ UNCHANGED <<attempt, r, pg_conn, conn, cursor, conn_status,
                   cache_vars, resp, inflight>>

\* time.sleep(retry_delay), line 45, then the next iteration of the for loop.
RedisSleep ==
    /\ pc = "redis_sleep"
    /\ attempt' = attempt + 1
    /\ pc' = "init_redis"
    /\ trace' = Append(trace, SleepEvent)
    /\ UNCHANGED <<tries, caught, ret, r, pg_conn, conn, cursor, conn_status,
                   cache_vars, resp, inflight>>

\* Lines 79-80 with the database acquisition skipped when the cache one
\* failed ("pg_conn = init_postgres() if r else None").
AssignRSkipPostgres ==
    /\ pc = "assign_r"
    /\ r' = ret
    /\ pc' = IF ret = None THEN "serving" ELSE "init_postgres"
    /\ attempt' = 0
    /\ tries' = 0
    /\ caught' = 0
    /\ ret' = None
    /\ trace' = << >>
    /\ UNCHANGED <<pg_conn, conn, cursor, conn_status, cache_vars, resp,
                   inflight>>

\* Line 79: r = init_redis(). The call's locals are gone; line 80 starts.
AssignR ==
    /\ pc = "assign_r"
    /\ r' = ret
    /\ pc' = "init_postgres"
    /\ attempt' = 0
    /\ tries' = 0
    /\ caught' = 0
    /\ ret' = None
    /\ trace' = << >>
    /\ UNCHANGED <<pg_conn, conn, cursor, conn_status, cache_vars, resp,
                   inflight>>

\* --------------------------------------------------- psycopg2 connections

\* Reference counting: a connection object that no variable refers to any
\* more is deallocated, which closes its session. refs is the set of values
\* of the variables that may hold a connection.
Release(status, refs) ==
    [c \in ConnIds |-> IF c \in refs THEN status[c] ELSE "free"]

LiveConns == {c \in ConnIds : conn_status[c] \in {"open", "aborted"}}

\* What "with c.cursor() as cursor: cursor.execute(...)" can do on a connection
\* in library state st: the exception class raised ("ok": none) and the state
\* the connection is left in.
\*   open:    the query runs; or the session is lost (OperationalError, the
\*            library marks the connection closed); or the server cancels the
\*            statement (OperationalError, e.g. QueryCanceled on a statement
\*            timeout) and the open transaction is aborted.
\*   aborted: every statement raises InFailedSqlTransaction (a DatabaseError
\*            that is no OperationalError) until a rollback, which the code
\*            never issues; or the session is found lost.
\*   closed:  cursor() raises InterfaceError("connection already closed").
QueryOutcomes(st) ==
    CASE st = "open" ->
            { [exc |-> "ok", st |-> "open"],
              [exc |-> "OperationalError", st |-> "closed"],
              [exc |-> "OperationalError", st |-> "aborted"] }
      [] st = "aborted" ->
            { [exc |-> "DatabaseError", st |-> "aborted"],
              [exc |-> "OperationalError", st |-> "closed"] }
      [] OTHER ->
            { [exc |-> "InterfaceError", st |-> "closed"] }

\* --------------------------------------------------------- init_postgres

\* Lines 57-64: psycopg2.connect(...). On success conn is rebound to the new
\* object; the previous one, if any, is still referenced by the local cursor.
PgConnect ==
    /\ pc = "init_postgres"
    /\ tries' = tries + 1
    /\ \E outcome \in {"ok"} \cup PgCaught \cup {"Exception"} :
          CASE outcome = "ok" ->
                  LET new == CHOOSE c \in ConnIds : c \notin {conn, cursor}
                  IN  /\ conn' = new
                      /\ conn_status' =
                            Release([conn_status EXCEPT ![new] = "open"],
                                    {new, cursor})
                      /\ pc' = "pg_verify"
                      /\ trace' = Append(trace, AttemptEvent(attempt))
                      /\ UNCHANGED <<ret, caught, cursor>>
            [] outcome \in PgCaught ->
                  /\ ExceptBranch("pg_sleep", "assign_pg",
                                  Append(trace, AttemptEvent(attempt)))
                  /\ IF IsLastAttempt(attempt)
                        THEN \* return None: the frame and its locals are gone
                             /\ conn' = None
                             /\ cursor' = None
                             /\ conn_status' = Release(conn_status, {})
                        ELSE UNCHANGED <<conn, cursor, conn_status>>
            [] OTHER ->
                  /\ pc' = "crashed"
                  /\ conn' = None
                  /\ cursor' = None
                  /\ conn_status' = Release(conn_status, {})
                  /\ trace' = Append(trace, AttemptEvent(attempt))
                  /\ UNCHANGED <<ret, caught>>
    /\ UNCHANGED <<attempt, r, pg_conn, cache_vars, resp, inflight>>

\* Lines 66-69: with conn.cursor() as cursor: cursor.execute("SELECT 1;").
\* Binding cursor drops the last reference to the previous attempt's connection.
PgVerify ==
    /\ pc = "pg_verify"
    /\ \E o \in QueryOutcomes(conn_status[conn]) :
          LET st == [conn_status EXCEPT ![conn] = o.st]
          IN  CASE o.exc = "ok" ->
                      /\ ret' = conn
                      /\ pc' = "assign_pg"
                      /\ conn' = None
                      /\ cursor' = None
                      /\ conn_status' = Release(st, {conn})
                      /\ caught' = caught
                      /\ trace' = Append(trace, InfoEvent)
                [] o.exc \in PgCaught ->
                      /\ ExceptBranch("pg_sleep", "assign_pg", trace)
                      /\ IF IsLastAttempt(attempt)
                            THEN /\ conn' = None
                                 /\ cursor' = None
                                 /\ conn_status' = Release(st, {})
                            ELSE /\ conn' = conn
                                 /\ cursor' = conn
                                 /\ conn_status' = Release(st, {conn})
                [] OTHER ->
                      /\ pc' = "crashed"
                      /\ conn' = None
                      /\ cursor' = None
                      /\ conn_status' = Release(st, {})
                      /\ UNCHANGED <<ret, caught, trace>>
    /\ UNCHANGED <<attempt, tries, r, pg_conn, cache_vars, resp, inflight>>

\* time.sleep(retry_delay), line 73, then the next iteration of the for loop.
PgSleep ==
    /\ pc = "pg_sleep"
    /\ attempt' = attempt + 1
    /\ pc' = "init_postgres"
    /\ trace' = Append(trace, SleepEvent)
    /\ UNCHANGED <<tries, caught, ret, r, pg_conn, conn, cursor, conn_status,
                   cache_vars, resp, inflight>>

\* Line 80: pg_conn = init_postgres(). The module body is done: the server
\* starts handling requests.
AssignPg ==
    /\ pc = "assign_pg"
    /\ pg_conn' = ret
    /\ pc' = "serving"
    /\ attempt' = 0
    /\ tries' = 0
    /\ caught' = 0
    /\ ret' = None
    /\ trace' = << >>
    /\ UNCHANGED <<r, conn, cursor, conn_status, cache_vars, resp, inflight>>

\* ------------------------------------------------------- request handlers

REDIS_HOST == "redis"
POSTGRES_HOST == "postgres"

\* "if not r" (lines 84, 96), "if not pg_conn" (line 106): the handle is None.
HandleAbsentNever(h) == FALSE

HandleAbsent(h) == h = None

\* "if r:" (line 122), "if pg_conn:" (line 130), "... if r else ..." (line 151).
Truthy(h) == h # None

\* redis-py sends str values UTF-8 encoded; decode_responses=True (line 35)
\* decodes the stored bytes of a reply back to str. Stored bytes are a tuple.
Encode(value) == <<value>>

Decode(bytes) == bytes[1]

\* r.get(key) at the store: None for an absent key.
StoreGet(s, key) == IF key \in DOMAIN s THEN Decode(s[key]) ELSE None

\* A store that is flushed by every SET: only the entry just written remains.
StoreSetFlush(s, key, value) == [k \in {key} |-> Encode(value)]

\* SET with NX: keeps an existing entry.
StoreSetNx(s, key, value) ==
    [k \in DOMAIN s \cup {key} |->
        IF k \in DOMAIN s THEN s[k] ELSE Encode(value)]

\* r.set(key, value) at the store: plain SET, no NX/XX, no expiry.
StoreSet(s, key, value) ==
    [k \in DOMAIN s \cup {key} |-> IF k = key THEN Encode(value) ELSE s[k]]

\* What a method call on the global r can raise. On None it is an
\* AttributeError (reached only if the guard lets None through).
RedisCallOutcomes(h) ==
    IF h = None THEN {"AttributeError"} ELSE {"ok"} \cup RedisCaught

Unavailable503(op, key, value, detail) ==
    [op |-> op, code |-> 503, key |-> key, value |-> value, detail |-> detail,
     calls |-> 0, outcome |-> "none"]

\* FastAPI's answer to an exception no handler caught.
Unhandled500(op, key, value, exc) ==
    [op |-> op, code |-> 500, key |-> key, value |-> value,
     detail |-> "Internal Server Error", calls |-> 1, outcome |-> exc]

\* History carried by a cache_get response: the request that came directly
\* before it, when that was a cache_set of the same key that returned 200, as
\* <<value set, value the store held before>>; else << >>.
Follows(key) ==
    IF resp.op = "cache_set" /\ resp.code = 200 /\ resp.key = key
       THEN <<resp.value, resp.replaced>>
       ELSE << >>

\* Lines 86-92 with "except Exception": the 404 raised inside the try block
\* is caught too and becomes a 503.
CacheGetRespBroad(key, outcome, val) ==
    IF outcome = "ok" /\ val # None
       THEN [op |-> "cache_get", code |-> 200, key |-> key, value |-> val,
             detail |-> "", calls |-> 1, outcome |-> outcome,
             follows |-> Follows(key)]
       ELSE [op |-> "cache_get", code |-> 503, key |-> key, value |-> None,
             detail |-> "Redis error", calls |-> 1, outcome |-> outcome,
             follows |-> Follows(key)]

\* Lines 86-92 with a lookup error treated as a miss ("val = None" in the
\* except path): a store call that raises answers 404.
CacheGetRespErrorAsMiss(key, outcome, val) ==
    IF outcome = "ok" /\ val # None
       THEN [op |-> "cache_get", code |-> 200, key |-> key, value |-> val,
             detail |-> "", calls |-> 1, outcome |-> outcome,
             follows |-> Follows(key)]
       ELSE [op |-> "cache_get", code |-> 404, key |-> key, value |-> None,
             detail |-> "Key not found", calls |-> 1, outcome |-> outcome,
             follows |-> Follows(key)]

\* Lines 86-92: the response of cache_get once r.get(key) was issued; val is
\* what the store holds for key. HTTPException is no RedisError: the 404
\* raised inside the try block passes the except clause.
CacheGetResp(key, outcome, val) ==
    CASE outcome = "ok" /\ val = None ->
            [op |-> "cache_get", code |-> 404, key |-> key, value |-> None,
             detail |-> "Key not found", calls |-> 1, outcome |-> outcome,
             follows |-> Follows(key)]
      [] outcome = "ok" /\ val # None ->
            [op |-> "cache_get", code |-> 200, key |-> key, value |-> val,
             detail |-> "", calls |-> 1, outcome |-> outcome,
             follows |-> Follows(key)]
      [] outcome \in RedisCaught ->
            [op |-> "cache_get", code |-> 503, key |-> key, value |-> None,
             detail |-> "Redis error", calls |-> 1, outcome |-> outcome,
             follows |-> Follows(key)]
      [] OTHER -> Unhandled500("cache_get", key, None, outcome)

\* Lines 82-92.
cache_get ==
    /\ pc = "serving"
    /\ \E key \in Keys :
          IF HandleAbsent(r)
             THEN resp' = Unavailable503("cache_get", key, None,
                                         "Redis service unavailable")
             ELSE \E outcome \in RedisCallOutcomes(r) :
                     resp' = CacheGetResp(key, outcome, StoreGet(store, key))
    /\ UNCHANGED <<pc, startup_vars, r, pg_conn, conn_status, cache_vars,
                   inflight>>

\* Lines 98-102: the response of cache_set once r.set(key, value) was issued.
CacheSetResp(key, value, outcome) ==
    CASE outcome = "ok" ->
            [op |-> "cache_set", code |-> 200, key |-> key, value |-> value,
             detail |-> "ok", calls |-> 1, outcome |-> outcome,
             replaced |-> StoreGet(store, key)]
      [] outcome \in RedisCaught ->
            [op |-> "cache_set", code |-> 503, key |-> key, value |-> value,
             detail |-> "Redis error", calls |-> 1, outcome |-> outcome]
      [] OTHER -> Unhandled500("cache_set", key, value, outcome)

\* Lines 94-102. A call that raised may or may not have reached the store
\* before the connection failed (applied).
cache_set ==
    /\ pc = "serving"
    /\ \E key \in Keys, value \in Values :
          IF HandleAbsent(r)
             THEN /\ resp' = Unavailable503("cache_set", key, value,
                                            "Redis service unavailable")
                  /\ UNCHANGED cache_vars
             ELSE \E outcome \in RedisCallOutcomes(r), applied \in BOOLEAN :
                     /\ outcome = "ok" => applied
                     /\ outcome \notin ({"ok"} \cup RedisCaught) => ~applied
                     /\ resp' = CacheSetResp(key, value, outcome)
                     /\ store' = IF applied THEN StoreSet(store, key, value)
                                            ELSE store
                     /\ latest' =
                           CASE outcome = "ok" -> [latest EXCEPT ![key] = value]
                             [] applied -> [latest EXCEPT ![key] = Unacked]
                             [] OTHER -> latest
    /\ UNCHANGED <<pc, startup_vars, r, pg_conn, conn_status, inflight>>

\* The row "SELECT version();" returns: a non-empty string, by the server.
ServerVersion == "PostgreSQL"

\* What a query on the global pg_conn can do; on None, "pg_conn.cursor()" is
\* an AttributeError (reached only if the guard lets None through).
PgCallOutcomes(h) ==
    IF h = None THEN {[exc |-> "AttributeError", st |-> "free"]}
                ELSE QueryOutcomes(conn_status[h])

\* Lines 108-114: the response of db_test once the query was issued. Only
\* OperationalError is caught; any other exception leaves the handler.
DbTestResp(exc) ==
    CASE exc = "ok" ->
            [op |-> "db_test", code |-> 200, postgres_version |-> ServerVersion,
             status |-> "success", detail |-> "", calls |-> 1, outcome |-> exc]
      [] exc \in PgCaught ->
            [op |-> "db_test", code |-> 503, postgres_version |-> "",
             status |-> "", detail |-> "PostgreSQL error", calls |-> 1,
             outcome |-> exc]
      [] OTHER ->
            [op |-> "db_test", code |-> 500, postgres_version |-> "",
             status |-> "", detail |-> "Internal Server Error", calls |-> 1,
             outcome |-> exc]

\* Lines 104-114 with a handler that drops the global handle when its query
\* fails ("global pg_conn; pg_conn = None" in the except path).
db_test_reset ==
    /\ pc = "serving"
    /\ IF HandleAbsent(pg_conn)
          THEN /\ resp' = [op |-> "db_test", code |-> 503,
                           postgres_version |-> "", status |-> "",
                           detail |-> "PostgreSQL service unavailable",
                           calls |-> 0, outcome |-> "none"]
               /\ UNCHANGED <<conn_status, pg_conn>>
          ELSE \E o \in PgCallOutcomes(pg_conn) :
                  /\ resp' = DbTestResp(o.exc)
                  /\ pg_conn' = IF o.exc = "ok" THEN pg_conn ELSE None
                  /\ conn_status' =
                        IF o.exc = "ok" THEN conn_status
                        ELSE Release(conn_status, {})
    /\ UNCHANGED <<pc, startup_vars, r, cache_vars, inflight>>

\* Lines 104-114.
db_test ==
    /\ pc = "serving"
    /\ IF HandleAbsent(pg_conn)
          THEN /\ resp' = [op |-> "db_test", code |-> 503,
                           postgres_version |-> "", status |-> "",
                           detail |-> "PostgreSQL service unavailable",
                           calls |-> 0, outcome |-> "none"]
               /\ UNCHANGED conn_status
          ELSE \E o \in PgCallOutcomes(pg_conn) :
                  /\ resp' = DbTestResp(o.exc)
                  /\ conn_status' =
                        IF pg_conn = None THEN conn_status
                        ELSE [conn_status EXCEPT ![pg_conn] = o.st]
    /\ UNCHANGED <<pc, startup_vars, r, pg_conn, cache_vars, inflight>>

\* "except OperationalError" / "except RedisError" in place of the bare except.
HealthCatchesNarrow(exc) ==
    exc \in PgCaught \cup RedisCaught

\* The bare "except:" of lines 126 and 135 catches every exception.
HealthCatches(exc) == TRUE

AggregateOr(redis_status, postgres_status) ==
    IF redis_status = "healthy" \/ postgres_status = "healthy"
       THEN "healthy" ELSE "degraded"

\* Line 139.
Aggregate(redis_status, postgres_status) ==
    IF redis_status = "healthy" /\ postgres_status = "healthy"
       THEN "healthy" ELSE "degraded"

\* Lines 118-144 with both re-checks in one try block: when the ping raises,
\* the database check is skipped and postgresql stays "unhealthy".
HealthRespOneTry(redis_exc, pg_exc) ==
    LET redis_status == IF redis_exc = "ok" THEN "healthy" ELSE "unhealthy"
        postgres_status ==
            IF pg_exc = "ok" /\ redis_exc \in {"ok", "skipped"}
               THEN "healthy" ELSE "unhealthy"
    IN  [op |-> "health_check", code |-> 200,
         status |-> Aggregate(redis_status, postgres_status),
         redis |-> redis_status,
         postgresql |-> postgres_status,
         redis_host |-> REDIS_HOST,
         postgres_host |-> POSTGRES_HOST,
         redis_exc |-> redis_exc,
         pg_exc |-> pg_exc]

\* Lines 138-144, or the 500 of an exception that left the handler.
HealthResp(redis_exc, pg_exc) ==
    LET redis_status == IF redis_exc = "ok" THEN "healthy" ELSE "unhealthy"
        postgres_status == IF pg_exc = "ok" THEN "healthy" ELSE "unhealthy"
        escaped == {e \in {redis_exc, pg_exc} \ {"ok", "skipped"} :
                       ~HealthCatches(e)}
    IN  IF escaped # {}
           THEN [op |-> "health_check", code |-> 500, redis_exc |-> redis_exc,
                 pg_exc |-> pg_exc]
           ELSE [op |-> "health_check", code |-> 200,
                 status |-> Aggregate(redis_status, postgres_status),
                 redis |-> redis_status,
                 postgresql |-> postgres_status,
                 redis_host |-> REDIS_HOST,
                 postgres_host |-> POSTGRES_HOST,
                 redis_exc |-> redis_exc,
                 pg_exc |-> pg_exc]

\* Lines 116-144. A check that is not run because the handle is None leaves
\* the status at its initial "unhealthy" ("skipped").
health_check ==
    /\ pc = "serving"
    /\ \E redis_exc \in (IF Truthy(r)
                            THEN {"ok", "Exception"} \cup RedisCaught
                            ELSE {"skipped"}),
          o \in (IF Truthy(pg_conn)
                    THEN QueryOutcomes(conn_status[pg_conn])
                    ELSE {[exc |-> "skipped", st |-> "free"]}) :
          /\ resp' = HealthResp(redis_exc, o.exc)
          /\ conn_status' = IF Truthy(pg_conn)
                               THEN [conn_status EXCEPT ![pg_conn] = o.st]
                               ELSE conn_status
    /\ UNCHANGED <<pc, startup_vars, r, pg_conn, cache_vars, inflight>>

\* Lines 146-160 with a live re-check: "available" only for a handle whose
\* connection still works.
root_live ==
    /\ pc = "serving"
    /\ resp' = [op |-> "root", code |-> 200,
                redis |-> IF Truthy(r) THEN "available" ELSE "unavailable",
                postgresql |-> IF Truthy(pg_conn)
                                  /\ conn_status[pg_conn] = "open"
                                  THEN "available" ELSE "unavailable"]
    /\ UNCHANGED <<pc, startup_vars, r, pg_conn, conn_status, cache_vars,
                   inflight>>

\* Lines 146-160.
root ==
    /\ pc = "serving"
    /\ resp' = [op |-> "root", code |-> 200,
                redis |-> IF Truthy(r) THEN "available" ELSE "unavailable",
                postgresql |-> IF Truthy(pg_conn) THEN "available"
                                                   ELSE "unavailable"]
    /\ UNCHANGED <<pc, startup_vars, r, pg_conn, conn_status, cache_vars,
                   inflight>>

\* ------------------------------------------- handlers running concurrently
\* db_test and health_check as two steps each, so that requests on several
\* worker threads overlap: a handler enters "with pg_conn.cursor() as cursor:
\* cursor.execute(...)" in one step and leaves it in another. The source
\* takes no lock around pg_conn.

DbTestUnavailable ==
    [op |-> "db_test", code |-> 503, postgres_version |-> "", status |-> "",
     detail |-> "PostgreSQL service unavailable", calls |-> 0,
     outcome |-> "none"]

\* Lines 106-110 with a lock around the shared connection: the query starts
\* only when no other thread is inside one.
DbTestBeginLocked(t) ==
    /\ pc = "serving"
    /\ inflight[t] = Idle
    /\ IF HandleAbsent(pg_conn)
          THEN /\ resp' = DbTestUnavailable
               /\ UNCHANGED inflight
          ELSE /\ \A u \in Threads : inflight[u] = Idle
               /\ inflight' = [inflight EXCEPT
                                 ![t] = [op |-> "db_test", redis_exc |-> "none"]]
               /\ UNCHANGED resp
    /\ UNCHANGED <<pc, startup_vars, r, pg_conn, conn_status, cache_vars>>

\* Lines 106-110: the guard, then thread t starts its query on pg_conn.
DbTestBegin(t) ==
    /\ pc = "serving"
    /\ inflight[t] = Idle
    /\ IF HandleAbsent(pg_conn)
          THEN /\ resp' = DbTestUnavailable
               /\ UNCHANGED inflight
          ELSE /\ inflight' = [inflight EXCEPT
                                 ![t] = [op |-> "db_test", redis_exc |-> "none"]]
               /\ UNCHANGED resp
    /\ UNCHANGED <<pc, startup_vars, r, pg_conn, conn_status, cache_vars>>

\* Lines 110-114: the query of thread t ends and db_test answers.
DbTestEnd(t) ==
    /\ pc = "serving"
    /\ inflight[t].op = "db_test"
    /\ \E o \in PgCallOutcomes(pg_conn) :
          /\ resp' = DbTestResp(o.exc)
          /\ conn_status' = [conn_status EXCEPT ![pg_conn] = o.st]
    /\ inflight' = [inflight EXCEPT ![t] = Idle]
    /\ UNCHANGED <<pc, startup_vars, r, pg_conn, cache_vars>>

\* Lines 118-133: the ping, then thread t starts its query on pg_conn; with
\* no database handle the handler answers at once.
HealthBegin(t) ==
    /\ pc = "serving"
    /\ inflight[t] = Idle
    /\ \E redis_exc \in (IF Truthy(r)
                            THEN {"ok", "Exception"} \cup RedisCaught
                            ELSE {"skipped"}) :
          IF Truthy(pg_conn)
             THEN /\ inflight' = [inflight EXCEPT
                                    ![t] = [op |-> "health_check",
                                            redis_exc |-> redis_exc]]
                  /\ UNCHANGED resp
             ELSE /\ resp' = HealthResp(redis_exc, "skipped")
                  /\ UNCHANGED inflight
    /\ UNCHANGED <<pc, startup_vars, r, pg_conn, conn_status, cache_vars>>

\* Lines 133-144: the query of thread t ends and health_check answers.
HealthEnd(t) ==
    /\ pc = "serving"
    /\ inflight[t].op = "health_check"
    /\ \E o \in QueryOutcomes(conn_status[pg_conn]) :
          /\ resp' = HealthResp(inflight[t].redis_exc, o.exc)
          /\ conn_status' = [conn_status EXCEPT ![pg_conn] = o.st]
    /\ inflight' = [inflight EXCEPT ![t] = Idle]
    /\ UNCHANGED <<pc, startup_vars, r, pg_conn, cache_vars>>

\* ---------------------------------------------------------- specification

Next ==
    \/ RedisAttempt
    \/ RedisSleep
    \/ AssignR
    \/ PgConnect
    \/ PgVerify
    \/ PgSleep
    \/ AssignPg
    \/ cache_get
    \/ cache_set
    \/ db_test
    \/ health_check
    \/ root

Spec == Init /\ [][Next]_vars

\* Startup, then database requests overlapping on the worker threads.
NextConc ==
    \/ RedisAttempt
    \/ RedisSleep
    \/ AssignR
    \/ PgConnect
    \/ PgVerify
    \/ PgSleep
    \/ AssignPg
    \/ \E t \in Threads : DbTestBegin(t)
    \/ \E t \in Threads : DbTestEnd(t)
    \/ \E t \in Threads : HealthBegin(t)
    \/ \E t \in Threads : HealthEnd(t)

SpecConc == Init /\ [][NextConc]_vars

\* ------------------------------------------------------------ properties

TypeOK ==
    /\ pc \in {"init_redis", "redis_sleep", "assign_r", "init_postgres",
               "pg_verify", "pg_sleep", "assign_pg", "serving", "crashed"}
    /\ attempt \in 0..(max_retries - 1)
    /\ r \in {None, RedisClient}
    /\ pg_conn \in {None} \cup ConnIds
    /\ conn \in {None} \cup ConnIds
    /\ cursor \in {None} \cup ConnIds
    /\ conn_status \in [ConnIds -> {"free", "open", "aborted", "closed"}]
    /\ DOMAIN store \subseteq Keys
    /\ latest \in [Keys -> {None, Unacked} \cup Values]

CacheOps == {"cache_get", "cache_set"}

\* C1: when r is None (init_redis returned None), the latest cache_get or
\* cache_set answered 503 without calling the store: never 404, never a value,
\* and the store holds nothing this process wrote.
C1_UnavailableCacheIs503 ==
    (pc = "serving" /\ r = None /\ resp.op \in CacheOps) =>
        /\ resp.code = 503
        /\ resp.calls = 0
        /\ resp.op = "cache_get" => resp.value = None
        /\ store = << >>

C1_Witness ==
    /\ pc = "serving"
    /\ r = None
    /\ resp.op = "cache_set"
    /\ resp.code = 503

\* C2: with a live handle and a store call that succeeds, cache_set answers
\* 200 and the store then answers its value; a cache_get that directly follows
\* an acknowledged cache_set of its key answers 200 with the value set; and
\* whatever lies in between, a cache_get answers 200 with the value of the
\* latest write on its key when that write was acknowledged.
C2_SetThenGet ==
    /\ (resp.op = "cache_set" /\ resp.outcome = "ok") =>
          /\ resp.code = 200
          /\ StoreGet(store, resp.key) = resp.value
    /\ (resp.op = "cache_get" /\ resp.outcome = "ok") =>
          /\ resp.follows # << >> =>
                (resp.code = 200 /\ resp.value = resp.follows[1])
          /\ latest[resp.key] \in Values =>
                (resp.code = 200 /\ resp.value = latest[resp.key])

\* A cache_get answered right after a cache_set that replaced a different
\* value of the same key.
C2_Witness ==
    /\ resp.op = "cache_get"
    /\ resp.code = 200
    /\ resp.follows # << >>
    /\ resp.follows[2] \in Values \ {resp.follows[1]}
    /\ resp.value = resp.follows[1]

\* C3: with a live handle and a lookup that succeeds, cache_get answers 404
\* for a key that no cache_set has written, whatever the other keys hold.
C3_NeverWrittenIs404 ==
    (resp.op = "cache_get" /\ resp.outcome = "ok"
        /\ latest[resp.key] = None) => resp.code = 404

C3_Witness ==
    /\ resp.op = "cache_get"
    /\ resp.code = 404
    /\ \E k \in Keys \ {resp.key} : latest[k] \in Values /\ k \in DOMAIN store

HealthFields == {"status", "redis", "postgresql", "redis_host", "postgres_host"}

\* C4: health_check always answers 200 with status, redis, postgresql,
\* redis_host and postgres_host, whatever the handles are and whatever the
\* ping and the query raise.
C4_HealthNeverFails ==
    resp.op = "health_check" =>
        /\ resp.code = 200
        /\ HealthFields \subseteq DOMAIN resp
        /\ resp.redis_host = REDIS_HOST
        /\ resp.postgres_host = POSTGRES_HOST

\* Both re-checks raised, each an exception no other handler of the service
\* catches.
C4_Witness ==
    /\ resp.op = "health_check"
    /\ resp.redis_exc = "Exception"
    /\ resp.pg_exc = "InterfaceError"
    /\ resp.code = 200

\* C5: in a health_check answer, status is "healthy" exactly when redis and
\* postgresql are both "healthy" and "degraded" otherwise; each sub-status is
\* "healthy" or "unhealthy".
C5_AggregateStatus ==
    (resp.op = "health_check" /\ resp.code = 200) =>
        /\ resp.redis \in {"healthy", "unhealthy"}
        /\ resp.postgresql \in {"healthy", "unhealthy"}
        /\ resp.status \in {"healthy", "degraded"}
        /\ resp.status = "healthy" <=>
              (resp.redis = "healthy" /\ resp.postgresql = "healthy")

C5_Witness ==
    /\ resp.op = "health_check"
    /\ resp.redis = "healthy"
    /\ resp.postgresql = "unhealthy"
    /\ resp.status = "degraded"

\* C6: db_test answers 200 with a non-empty version and status "success" when
\* its query succeeds, and 503 in every other case: with no handle, and when
\* the query on the held connection fails, also after an earlier failed query
\* on that connection. No other status is produced.
C6_DbTest200Or503 ==
    resp.op = "db_test" =>
        IF resp.outcome = "ok"
           THEN /\ resp.code = 200
                /\ resp.postgres_version # ""
                /\ resp.status = "success"
           ELSE resp.code = 503

ReturnPcs == {"assign_r", "assign_pg"}

\* C7: an acquisition makes at most max_retries attempts; when it returns a
\* handle, the attempt it returned from was its first successful one (every
\* earlier attempt ended in the except clause) and none follows; it returns
\* None exactly when it made max_retries attempts and each ended in the except
\* clause.
C7_AttemptBudget ==
    /\ tries <= max_retries
    /\ caught <= tries
    /\ pc \in ReturnPcs =>
          /\ ret # None => caught = tries - 1
          /\ ret = None <=> (tries = max_retries /\ caught = max_retries)
    /\ pc = "serving" => tries = 0

\* init_postgres returns a handle from its last attempt.
C7_Witness ==
    /\ pc = "assign_pg"
    /\ ret # None
    /\ tries = max_retries
    /\ caught = max_retries - 1

\* C8: once the module body has run, no step changes r or pg_conn.
C8_HandlesNeverReplaced ==
    [][pc = "serving" => (r' = r /\ pg_conn' = pg_conn /\ pc' = "serving")]_vars

\* The held connection is closed after request-time errors, the cache handle
\* is None although a later request ran, and both globals are what startup
\* left.
C8_Witness ==
    /\ pc = "serving"
    /\ r = None
    /\ pg_conn # None
    /\ conn_status[pg_conn] = "closed"
    /\ resp.op = "db_test"
    /\ resp.code = 500

\* C9: at every point of startup and serving at most one database connection
\* is open: one opened by an attempt whose verification query failed is not
\* open next to the one a later attempt opens.
C9_AtMostOneLiveConnection ==
    Cardinality(LiveConns) <= 1

\* C10 as claimed: an acquisition ends only by returning a handle or None,
\* whatever its attempts raise.
C10_TwoResultsOnly ==
    /\ tries <= max_retries
    /\ pc # "crashed"

StartupPcs == {"init_redis", "redis_sleep", "assign_r", "init_postgres",
               "pg_verify", "pg_sleep", "assign_pg"}

\* C10 amended: an acquisition ends after at most max_retries attempts; it
\* never stops in between; what it returns is a live handle or None; and the
\* only other way it ends is an attempt raising an exception that its except
\* clause does not name, which leaves the call at that attempt (every earlier
\* attempt ended in the except clause) and ends the process.
C10_AcquireTerminates ==
    /\ tries <= max_retries
    /\ attempt < max_retries
    /\ tries \in {attempt, attempt + 1} \/ pc \in {"serving", "crashed"}
           \/ pc \in ReturnPcs
    /\ pc \in StartupPcs => ENABLED Next
    /\ pc = "assign_r" => ret \in {None, RedisClient}
    /\ pc = "assign_pg" =>
          /\ ret \in {None} \cup ConnIds
          /\ ret # None => conn_status[ret] = "open"
    /\ pc = "crashed" => (tries >= 1 /\ caught = tries - 1)

\* An exception outside the caught class ended the call after retried
\* failures.
C10_Witness ==
    /\ pc = "crashed"
    /\ caught = 2
    /\ tries = 3

\* C11: when init_redis returned None, cache_get and cache_set answer 503 and
\* health_check reports redis "unhealthy" and status "degraded" without
\* pinging; in every health_check answer postgresql is "healthy" exactly when
\* the database handle is present and its own query succeeded, and redis is
\* "healthy" exactly when the cache handle is present and its own ping
\* succeeded: neither sub-status depends on the other dependency.
C11_DependenciesIndependent ==
    /\ (pc = "serving" /\ r = None /\ resp.op \in CacheOps) => resp.code = 503
    /\ (resp.op = "health_check" /\ resp.code = 200) =>
          /\ r = None => /\ resp.redis_exc = "skipped"
                         /\ resp.redis = "unhealthy"
                         /\ resp.status = "degraded"
          /\ resp.pg_exc = "skipped" <=> pg_conn = None
          /\ resp.redis_exc = "skipped" <=> r = None
          /\ resp.postgresql = "healthy" <=> resp.pg_exc = "ok"
          /\ resp.redis = "healthy" <=> resp.redis_exc = "ok"

\* The cache was down for all of startup and the database answers.
C11_Witness ==
    /\ pc = "serving"
    /\ r = None
    /\ resp.op = "health_check"
    /\ resp.redis = "unhealthy"
    /\ resp.postgresql = "healthy"
    /\ resp.status = "degraded"

\* C12: root always answers 200 and reports a service "available" exactly
\* when its global handle is not None, whatever state the connection is in.
C12_RootReportsHandles ==
    resp.op = "root" =>
        /\ resp.code = 200
        /\ resp.redis = "available" <=> r # None
        /\ resp.redis = "unavailable" <=> r = None
        /\ resp.postgresql = "available" <=> pg_conn # None
        /\ resp.postgresql = "unavailable" <=> pg_conn = None

\* root reports postgresql "available" while the held connection is closed:
\* every health_check query on it raises, so health_check reports "unhealthy".
C12_Witness ==
    /\ resp.op = "root"
    /\ resp.postgresql = "available"
    /\ conn_status[pg_conn] = "closed"
    /\ \A o \in QueryOutcomes(conn_status[pg_conn]) : o.exc # "ok"

\* k rounds of a failed attempt that is not the last: the attempt, a warning
\* with its 1-based number, a sleep of retry_delay.
FailedRounds(k) ==
    [j \in 1..(3 * k) |->
        CASE j % 3 = 1 -> [ev |-> "attempt", n |-> (j + 2) \div 3]
          [] j % 3 = 2 -> [ev |-> "warning", n |-> (j + 2) \div 3]
          [] OTHER -> [ev |-> "sleep", n |-> retry_delay]]

Count(tr, e) == Cardinality({j \in DOMAIN tr : tr[j].ev = e})

SleepPcs == {"redis_sleep", "pg_sleep"}

\* C13: at every point of an acquisition, what it did so far is: for each
\* failed attempt before the current one, the attempt, one warning with its
\* 1-based number and one sleep of retry_delay, in that order; then the
\* current attempt and, once it failed, its warning (the sleep follows) or,
\* for the last attempt, one error log and the return with no sleep. A call
\* that returns None made max_retries attempts, max_retries - 1 sleeps,
\* max_retries - 1 warnings and one error log.
C13_RetryTrace ==
    LET cur == [ev |-> "attempt", n |-> attempt + 1]
    IN
    /\ pc \in {"init_redis", "init_postgres"} => trace = FailedRounds(attempt)
    /\ pc = "pg_verify" => trace = Append(FailedRounds(attempt), cur)
    /\ pc \in SleepPcs =>
          trace = FailedRounds(attempt)
                     \o <<cur, [ev |-> "warning", n |-> attempt + 1]>>
    /\ (pc \in ReturnPcs /\ ret # None) =>
          trace = FailedRounds(attempt) \o <<cur, InfoEvent>>
    /\ (pc \in ReturnPcs /\ ret = None) =>
          /\ trace = FailedRounds(max_retries - 1)
                        \o <<[ev |-> "attempt", n |-> max_retries], ErrorEvent>>
          /\ Count(trace, "attempt") = max_retries
          /\ Count(trace, "sleep") = max_retries - 1
          /\ Count(trace, "warning") = max_retries - 1
          /\ Count(trace, "error") = 1
          /\ trace[Len(trace)].ev = "error"
    /\ pc = "crashed" => trace = Append(FailedRounds(attempt), cur)
    /\ pc = "serving" => trace = << >>

\* init_postgres has failed all its attempts and is about to return None.
C13_Witness ==
    /\ pc = "assign_pg"
    /\ ret = None
    /\ Len(trace) = 3 * max_retries - 1
    /\ Count(trace, "sleep") = max_retries - 1

\* C14: with a live cache handle each cache_get and cache_set makes one store
\* call; when that call raises an error the except clause names, the answer
\* is 503, not 404 and not a success, and the call is not repeated; cache_get
\* answers 404 only when its lookup returned and the store holds no value for
\* the key.
C14_StoreErrorIs503 ==
    /\ (resp.op \in CacheOps /\ resp.outcome \in RedisCaught) =>
          /\ resp.code = 503
          /\ resp.calls = 1
    /\ (pc = "serving" /\ r # None /\ resp.op \in CacheOps) => resp.calls = 1
    /\ (resp.op = "cache_get" /\ resp.code = 404) =>
          /\ resp.outcome = "ok"
          /\ resp.key \notin DOMAIN store

\* The lookup of a key the store holds raised.
C14_Witness ==
    /\ resp.op = "cache_get"
    /\ resp.outcome = "TimeoutError"
    /\ resp.code = 503
    /\ resp.key \in DOMAIN store

PgPcs == {"init_postgres", "pg_verify", "pg_sleep", "assign_pg"}

\* C15: a request is answered only once the module body has run; serving
\* starts only from the return of init_postgres; init_postgres starts only
\* from the return of init_redis, whichever value that returned, with its
\* loop at attempt 0; and it returns None only after max_retries attempts.
C15_StartupBeforeServing ==
    [][ /\ resp' # resp => (pc = "serving" /\ pc' = "serving")
        /\ resp.op # "none" => pc = "serving"
        /\ pc' = "serving" => pc \in {"assign_pg", "serving"}
        /\ pc = "assign_r" =>
              (pc' = "init_postgres" /\ attempt' = 0 /\ tries' = 0 /\ r' = ret)
        /\ (pc' \in PgPcs /\ pc \notin PgPcs) => pc = "assign_r"
        /\ (pc' = "assign_pg" /\ ret' = None) => tries' = max_retries
      ]_vars

\* The cache acquisition returned None and the database acquisition still
\* went through all its attempts.
C15_Witness ==
    /\ pc = "assign_pg"
    /\ r = None
    /\ ret = None
    /\ tries = max_retries

\* C16: nothing keeps a request from starting its query on pg_conn while
\* other requests are inside theirs: whenever the handle is present, every
\* idle worker thread can start the query of db_test and that of
\* health_check, whatever the other threads are doing.
C16_NoMutualExclusion ==
    \A t \in Threads :
        (pc = "serving" /\ pg_conn # None /\ inflight[t] = Idle) =>
            /\ ENABLED DbTestBegin(t)
            /\ ENABLED HealthBegin(t)

\* A db_test and a health_check are inside a query on the same connection.
C16_Witness ==
    /\ pg_conn # None
    /\ \E t, u \in Threads :
          /\ t # u
          /\ inflight[t].op = "db_test"
          /\ inflight[u].op = "health_check"

\* The store holds the same thing for key k before and after the step.
EntryUnchanged(k) ==
    /\ (k \in DOMAIN store') = (k \in DOMAIN store)
    /\ k \in DOMAIN store => store'[k] = store[k]

\* C17: only cache_set changes the store, and only the entry of its own key:
\* startup, cache_get, db_test, health_check and root leave every entry as
\* it was, cache_set(key, value) leaves every entry but that of key as it
\* was (and writes the encoded value when it changes it), and a cache_set
\* answered 503 for lack of a handle leaves every entry as it was.
C17_OnlyCacheSetWrites ==
    [][ /\ pc # "serving" => store' = store
        /\ (pc = "serving" /\ resp'.op # "cache_set") => store' = store
        /\ (pc = "serving" /\ resp'.op = "cache_set") =>
              /\ \A k \in Keys \ {resp'.key} : EntryUnchanged(k)
              /\ store' # store => store'[resp'.key] = Encode(resp'.value)
              /\ r = None => (store' = store /\ resp'.code = 503)
      ]_vars

\* A cache_set overwrote the entry of its key while the store held an entry
\* for another key.
C17_Witness ==
    /\ resp.op = "cache_set"
    /\ resp.code = 200
    /\ resp.replaced \notin {None, resp.value}
    /\ store[resp.key] = Encode(resp.value)
    /\ \E k \in Keys \ {resp.key} : k \in DOMAIN store

====
